---- MODULE Spec2Model ----
(***************************************************************************)
(* A model of db_doc.py: the data dictionary builder that reads the        *)
(* INFORMATION_SCHEMA of a database (tables, columns, constraints), keeps   *)
(* them in a SchemaCache, builds one TableDescription per table and writes  *)
(* one worksheet per table into a workbook which is saved once.             *)
(*                                                                         *)
(* Python values are tagged records, so that None, 0, "0" and False stay    *)
(* different values: None, PyStr(s), PyInt(n), PyBool(b).                   *)
(***************************************************************************)
EXTENDS Integers, Sequences, FiniteSets, TLC

VARIABLES
    catTables,      \* INFORMATION_SCHEMA.TABLES: a set of rows
    catColumns,     \* INFORMATION_SCHEMA.COLUMNS: a set of rows
    catConstraints, \* the constraint join of get_constraints: a set of rows
    pc,             \* position of discoverdb
    connOpen,       \* DBService.conn is open
    cache,          \* the SchemaCache: [tables, columns, constraints]
    wkbk,           \* XLService.wkbk: the sequence of worksheets [title, rows]
    next,           \* number of entries of cache.tables the loop of run has done
    saveCalls,      \* how often XLService.save was invoked in this run
    file,           \* the saved workbook (NoFile before save)
    printed,        \* what discoverdb printed (None before)
    trace,          \* the steps of this run, in the order they were taken
    run,            \* 1 in the first run of the pipeline, 2 in the second
    prevFile,       \* the file the first run saved
    call            \* the last direct call of a SchemaCache / DDSpider method

vars == <<catTables, catColumns, catConstraints, pc, connOpen, cache, wkbk, next,
          saveCalls, file, printed, trace, run, prevFile, call>>

catalogVars == <<catTables, catColumns, catConstraints>>
pipelineVars == <<pc, connOpen, wkbk, next, saveCalls, file, printed, trace, run, prevFile>>

-----------------------------------------------------------------------------
(* Bounds of the model *)

MaxTables == 2
MaxColumns == 2
MaxConstraints == 2

-----------------------------------------------------------------------------
(* Python values *)

None == [none |-> TRUE]
PyStr(s) == [str |-> s]
PyInt(n) == [int |-> n]
PyBool(b) == [bool |-> b]

IsStr(v) == "str" \in DOMAIN v
IsInt(v) == "int" \in DOMAIN v
IsBool(v) == "bool" \in DOMAIN v

\* Python's truth value of an object, as `if x` and `x if c else y` take it
Truthy(v) ==
    CASE v = None -> FALSE
      [] IsInt(v) -> v.int # 0
      [] IsBool(v) -> v.bool
      [] IsStr(v) -> v.str # ""

Digits == <<"0", "1", "2", "3", "4", "5", "6", "7", "8", "9">>

RECURSIVE NatToStr(_)
NatToStr(n) ==
    IF n < 10 THEN Digits[n + 1]
    ELSE NatToStr(n \div 10) \o Digits[(n % 10) + 1]

\* Python's str(x), which is also what "{0}".format(x) writes
Str(v) ==
    CASE v = None -> "None"
      [] IsInt(v) -> IF v.int < 0 THEN "-" \o NatToStr(0 - v.int) ELSE NatToStr(v.int)
      [] IsBool(v) -> IF v.bool THEN "True" ELSE "False"
      [] IsStr(v) -> v.str

\* sep.join(strs) for a sequence of TLA+ strings
RECURSIVE Join(_, _)
Join(strs, sep) ==
    IF Len(strs) = 0 THEN ""
    ELSE IF Len(strs) = 1 THEN strs[1]
    ELSE strs[1] \o sep \o Join(Tail(strs), sep)

-----------------------------------------------------------------------------
(* The records *)

Constraint(name, type, ctable, ccolumn, stable, scolumn) ==
    [CONSTRAINT_NAME |-> name, CONSTRAINT_TYPE |-> type,
     CONSTRAINED_TABLE |-> ctable, CONSTRAINED_COLUMN |-> ccolumn,
     SOURCE_TABLE |-> stable, SOURCE_COLUMN |-> scolumn]

Column(table, name, nullable, type, maxlen, default, identity) ==
    [TABLE_NAME |-> table, COLUMN_NAME |-> name, IS_NULLABLE |-> nullable,
     DATA_TYPE |-> type, MAX_LENGTH |-> maxlen, COLUMN_DEFAULT |-> default,
     IS_IDENTITY |-> identity]

\* Field.__init__ keeping the size as it is given
Field_size_kept(key, name, cap, typ, size, default, null, uniq, ref, notes) ==
    [key |-> key, name |-> name, cap |-> cap, typ |-> typ, size |-> size,
     default |-> default, null |-> null, uniq |-> uniq, ref |-> ref,
     notes |-> notes]

\* Field.__init__
Field(key, name, cap, typ, size, default, null, uniq, ref, notes) ==
    [key |-> key, name |-> name, cap |-> cap, typ |-> typ,
     size |-> IF Truthy(size) THEN PyStr(Str(size)) ELSE size,
     default |-> default, null |-> null, uniq |-> uniq, ref |-> ref,
     notes |-> notes]

\* Field.to_row
to_row(self) ==
    <<self.key, self.name, self.cap, self.typ, self.size,
      self.default, self.null, self.uniq, self.ref, self.notes>>

\* TableDescription.__init__
TableDescription(table_name) ==
    [headers |-> <<PyStr("Primary/Foreign Key"), PyStr("Field Name"),
                   PyStr("Caption"), PyStr("Data Type"), PyStr("Field Size"),
                   PyStr("Default"), PyStr("Nullable"), PyStr("Unique"),
                   PyStr("Reference"), PyStr("Notes")>>,
     table_name |-> table_name,
     fields |-> <<>>]

-----------------------------------------------------------------------------
(* SchemaCache *)

\* SchemaCache.__init__
SchemaCache == [tables |-> <<>>, columns |-> <<>>, constraints |-> <<>>]

\* get_column_reference collecting the references newest first
get_column_reference_reversed(self, table, column) ==
    LET IsFK(c) == c.CONSTRAINT_TYPE = PyStr("FOREIGN KEY")
        Hit(fk) == fk.CONSTRAINED_TABLE = table /\ fk.CONSTRAINED_COLUMN = column
        Ref(fk) == Str(fk.SOURCE_TABLE) \o "." \o Str(fk.SOURCE_COLUMN)
        fks == SelectSeq(self.constraints, IsFK)
        hits == SelectSeq(fks, Hit)
        refs == [i \in 1..Len(hits) |-> Ref(hits[Len(hits) + 1 - i])]
    IN  IF Len(refs) > 0 THEN PyStr(Join(refs, "; ")) ELSE None

get_column_reference(self, table, column) ==
    LET IsFK(c) == c.CONSTRAINT_TYPE = PyStr("FOREIGN KEY")
        Hit(fk) == fk.CONSTRAINED_TABLE = table /\ fk.CONSTRAINED_COLUMN = column
        Ref(fk) == Str(fk.SOURCE_TABLE) \o "." \o Str(fk.SOURCE_COLUMN)
        fks == SelectSeq(self.constraints, IsFK)
        hits == SelectSeq(fks, Hit)
        refs == [i \in 1..Len(hits) |-> Ref(hits[i])]
    IN  IF Len(refs) > 0 THEN PyStr(Join(refs, "; ")) ELSE None

\* is_column_a_key taking a UNIQUE constraint for a primary key
is_column_a_key_unique_counts(self, table, column) ==
    LET Hit(c) == c.CONSTRAINED_TABLE = table /\ c.CONSTRAINED_COLUMN = column
        column_constraints == SelectSeq(self.constraints, Hit)
        IsPK(c) == c.CONSTRAINT_TYPE \in { PyStr("PRIMARY KEY"), PyStr("UNIQUE") }
        IsFK(c) == c.CONSTRAINT_TYPE = PyStr("FOREIGN KEY")
        vals == (IF (\E i \in 1..Len(column_constraints) : IsPK(column_constraints[i])) THEN <<"P">> ELSE <<>>)
                \o (IF (\E i \in 1..Len(column_constraints) : IsFK(column_constraints[i])) THEN <<"F">> ELSE <<>>)
    IN  IF Len(vals) > 0 THEN PyStr(Join(vals, "/")) ELSE None

is_column_a_key(self, table, column) ==
    LET Hit(c) == c.CONSTRAINED_TABLE = table /\ c.CONSTRAINED_COLUMN = column
        column_constraints == SelectSeq(self.constraints, Hit)
        IsPK(c) == c.CONSTRAINT_TYPE = PyStr("PRIMARY KEY")
        IsFK(c) == c.CONSTRAINT_TYPE = PyStr("FOREIGN KEY")
        vals == (IF (\E i \in 1..Len(column_constraints) : IsPK(column_constraints[i])) THEN <<"P">> ELSE <<>>)
                \o (IF (\E i \in 1..Len(column_constraints) : IsFK(column_constraints[i])) THEN <<"F">> ELSE <<>>)
    IN  IF Len(vals) > 0 THEN PyStr(Join(vals, "/")) ELSE None

\* is_column_unique taking a PRIMARY KEY constraint for a UNIQUE one
is_column_unique_pk_counts(self, table, column) ==
    LET Hit(c) == /\ c.CONSTRAINT_TYPE \in { PyStr("UNIQUE"), PyStr("PRIMARY KEY") }
                  /\ c.CONSTRAINED_TABLE = table
                  /\ c.CONSTRAINED_COLUMN = column
    IN  PyBool(\E i \in 1..Len(self.constraints) : Hit(self.constraints[i]))

is_column_unique(self, table, column) ==
    LET Hit(c) == /\ c.CONSTRAINT_TYPE = PyStr("UNIQUE")
                  /\ c.CONSTRAINED_TABLE = table
                  /\ c.CONSTRAINED_COLUMN = column
    IN  PyBool(\E i \in 1..Len(self.constraints) : Hit(self.constraints[i]))

get_columns_for_table(self, table) ==
    LET Hit(c) == c.TABLE_NAME = table
    IN  SelectSeq(self.columns, Hit)

-----------------------------------------------------------------------------
(* DDSpider.make_field *)

\* make_field testing the identity flag with `is not None`
make_field_flag_present(self, table, col) ==
    LET field == Field(None, col.COLUMN_NAME, None, col.DATA_TYPE, col.MAX_LENGTH,
                       col.COLUMN_DEFAULT, col.IS_NULLABLE, None, None, None)
    IN  [field EXCEPT
            !.uniq = is_column_unique(self, table, col.COLUMN_NAME),
            !.key = is_column_a_key(self, table, col.COLUMN_NAME),
            !.ref = get_column_reference(self, table, col.COLUMN_NAME),
            !.cap = IF col.IS_IDENTITY # None THEN PyStr("Identity") ELSE @]

make_field(self, table, col) ==
    LET field == Field(None, col.COLUMN_NAME, None, col.DATA_TYPE, col.MAX_LENGTH,
                       col.COLUMN_DEFAULT, col.IS_NULLABLE, None, None, None)
    IN  [field EXCEPT
            !.uniq = is_column_unique(self, table, col.COLUMN_NAME),
            !.key = is_column_a_key(self, table, col.COLUMN_NAME),
            !.ref = get_column_reference(self, table, col.COLUMN_NAME),
            !.cap = IF Truthy(col.IS_IDENTITY) THEN PyStr("Identity") ELSE @]

-----------------------------------------------------------------------------
(* The catalog: what the database holds.  A relation is a set of rows; a    *)
(* query without ORDER BY returns its rows in an order the database picks.  *)

TableRow(schema, name, type) ==
    [TABLE_SCHEMA |-> PyStr(schema), TABLE_NAME |-> PyStr(name), TABLE_TYPE |-> PyStr(type)]

ColumnRow(table, ordinal, name, nullable, type, maxlen, default, identity) ==
    [TABLE_NAME |-> PyStr(table), ORDINAL_POSITION |-> ordinal,
     COLUMN_NAME |-> PyStr(name), IS_NULLABLE |-> PyStr(nullable),
     DATA_TYPE |-> PyStr(type), CHARACTER_MAXIMUM_LENGTH |-> maxlen,
     COLUMN_DEFAULT |-> default, IS_IDENTITY |-> identity]

TablePool ==
    { TableRow("dbo", "A", "BASE TABLE"), TableRow("hr", "A", "BASE TABLE"),
      TableRow("dbo", "B", "BASE TABLE"), TableRow("dbo", "A/B", "BASE TABLE"),
      TableRow("dbo", "sysdiagrams", "BASE TABLE"), TableRow("dbo", "V", "VIEW") }

ColumnPool ==
    { ColumnRow("A", 1, "id", "NO", "int", None, None, PyBool(TRUE)),
      ColumnRow("A", 2, "ref", "YES", "varchar", PyInt(255), None, PyBool(FALSE)),
      ColumnRow("B", 1, "ref", "YES", "varchar", PyInt(-1), PyStr("('x')"), None),
      ColumnRow("V", 1, "id", "NO", "int", None, None, PyBool(FALSE)),
      ColumnRow("sysdiagrams", 1, "id", "NO", "int", None, None, PyBool(TRUE)) }

ConstraintPool ==
    { Constraint(PyStr("PK_A"), PyStr("PRIMARY KEY"), PyStr("A"), PyStr("id"), None, None),
      Constraint(PyStr("FK_A_B"), PyStr("FOREIGN KEY"), PyStr("A"), PyStr("ref"), PyStr("B"), PyStr("ref")),
      Constraint(PyStr("FK_A_A"), PyStr("FOREIGN KEY"), PyStr("A"), PyStr("ref"), PyStr("A"), PyStr("id")),
      Constraint(PyStr("UQ_A"), PyStr("UNIQUE"), PyStr("A"), PyStr("ref"), None, None),
      Constraint(PyStr("CK_A"), PyStr("CHECK"), PyStr("A"), PyStr("id"), None, None),
      Constraint(PyStr("PK_sys"), PyStr("PRIMARY KEY"), PyStr("sysdiagrams"), PyStr("id"), None, None) }

\* the subsets of S of at most n rows
UpTo(S, n) == { T \in SUBSET S : Cardinality(T) <= n }

\* the orders in which the rows of the set S can be returned
RECURSIVE Orderings(_)
Orderings(S) ==
    IF S = {} THEN { <<>> }
    ELSE UNION { { <<x>> \o rest : rest \in Orderings(S \ {x}) } : x \in S }

\* the collation order of the table names of the pools
NameOrder == <<"A", "A/B", "B", "sysdiagrams", "V">>
NameRank(name) == CHOOSE i \in 1..Len(NameOrder) : PyStr(NameOrder[i]) = name

-----------------------------------------------------------------------------
(* DBService: the three queries *)

\* the rows the SQL of get_tables selects
TablesSelected ==
    { r \in catTables : /\ r.TABLE_NAME # PyStr("sysdiagrams")
                        /\ r.TABLE_TYPE = PyStr("BASE TABLE") }

\* get_tables, given the rows in the order the database returned them
get_tables(rows) == [i \in 1..Len(rows) |-> rows[i].TABLE_NAME]

\* the rows the SQL of get_columns selects: one per pair (c, t) of the join
ColumnsSelected ==
    { p \in catColumns \X catTables :
        /\ p[1].TABLE_NAME = p[2].TABLE_NAME
        /\ p[2].TABLE_NAME # PyStr("sysdiagrams")
        /\ p[2].TABLE_TYPE = PyStr("BASE TABLE") }

\* ORDER BY c.TABLE_NAME, c.ORDINAL_POSITION
ColumnsOrdered(rows) ==
    \A i \in 1..Len(rows) : \A j \in 1..Len(rows) :
        i < j =>
            \/ NameRank(rows[i][1].TABLE_NAME) < NameRank(rows[j][1].TABLE_NAME)
            \/ /\ rows[i][1].TABLE_NAME = rows[j][1].TABLE_NAME
               /\ rows[i][1].ORDINAL_POSITION <= rows[j][1].ORDINAL_POSITION

get_columns(rows) ==
    [i \in 1..Len(rows) |->
        Column(rows[i][1].TABLE_NAME, rows[i][1].COLUMN_NAME, rows[i][1].IS_NULLABLE,
               rows[i][1].DATA_TYPE, rows[i][1].CHARACTER_MAXIMUM_LENGTH,
               rows[i][1].COLUMN_DEFAULT, rows[i][1].IS_IDENTITY)]

\* the rows the SQL of get_constraints selects
ConstraintsSelected ==
    { r \in catConstraints :
        /\ r.CONSTRAINT_TYPE \in { PyStr("PRIMARY KEY"), PyStr("FOREIGN KEY"), PyStr("UNIQUE") }
        /\ r.CONSTRAINED_TABLE # PyStr("sysdiagrams") }

get_constraints(rows) ==
    [i \in 1..Len(rows) |->
        Constraint(rows[i].CONSTRAINT_NAME, rows[i].CONSTRAINT_TYPE,
                   rows[i].CONSTRAINED_TABLE, rows[i].CONSTRAINED_COLUMN,
                   rows[i].SOURCE_TABLE, rows[i].SOURCE_COLUMN)]

-----------------------------------------------------------------------------
(* XLService: the workbook is the sequence of its worksheets, a worksheet   *)
(* [title, rows] holds the rows written so far, each the sequence of its    *)
(* cell values.                                                             *)

\* main's arguments of discoverdb
server == "INSERT SERVER"
catalog == "INSERT DATABASE"
directory == "\\\\your\\filesystem\\location\\here"

\* XLService.__init__: the path of the file
fullpath(dir, dbname) == dir \o "\\" \o dbname \o "_DataDictionary.xlsx"

\* ox.Workbook(): a workbook with its default sheet
Workbook == << [title |-> PyStr("Sheet"), rows |-> <<>>] >>

sheetnames(wb) == { wb[i].title : i \in 1..Len(wb) }

remove_sheet(wb, title) ==
    LET Keep(ws) == ws.title # title IN SelectSeq(wb, Keep)

\* a title create_sheet refuses (it holds one of \ * ? : / [ ])
InvalidTitle(title) == title \in { PyStr("A/B") }

\* the title create_sheet gives a sheet: a title in use gets the first free number
RECURSIVE FreeTitle(_, _, _)
FreeTitle(names, title, n) ==
    IF PyStr(title.str \o NatToStr(n)) \notin names THEN PyStr(title.str \o NatToStr(n))
    ELSE FreeTitle(names, title, n + 1)

avoid_duplicate_name(names, title) ==
    IF title \in names THEN FreeTitle(names, title, 1) ELSE title

create_sheet(wb, title) ==
    Append(wb, [title |-> avoid_duplicate_name(sheetnames(wb), title), rows |-> <<>>])

\* the position of the sheet get_sheet_by_name returns: the first of that title
get_sheet_by_name(wb, title) ==
    CHOOSE i \in 1..Len(wb) :
        /\ wb[i].title = title
        /\ \A j \in 1..(i - 1) : wb[j].title # title

\* ws.cell(row, column).value = v for every cell of one row
WriteRow(ws, r, values) ==
    LET n == IF r > Len(ws.rows) THEN r ELSE Len(ws.rows)
    IN  [ws EXCEPT !.rows = [i \in 1..n |->
            IF i = r THEN values
            ELSE IF i <= Len(ws.rows) THEN ws.rows[i] ELSE <<>>]]

\* XLService._write_headers
write_headers(ws, headers) == WriteRow(ws, 1, headers)

\* XLService._write_fields: rows 2 .. len(fields) + 1, one field each
RECURSIVE write_fields_from(_, _, _)
write_fields_from(ws, fields, k) ==
    IF k > Len(fields) THEN ws
    ELSE write_fields_from(WriteRow(ws, k + 1, to_row(fields[k])), fields, k + 1)

\* _write_fields with min_row=1: the first field lands on the header row
write_fields_from_row_1(ws, table_desc) ==
    IF Len(table_desc.fields) = 0 THEN ws
    ELSE [ws EXCEPT !.rows = [i \in 1..Len(table_desc.fields) |-> to_row(table_desc.fields[i])]]

write_fields(ws, table_desc) == write_fields_from(ws, table_desc.fields, 1)

\* XLService.describe_table, for a title create_sheet accepts
describe_table(wb, table_desc) ==
    LET added == create_sheet(wb, table_desc.table_name)
        at == get_sheet_by_name(added, table_desc.table_name)
    IN  [added EXCEPT ![at] =
            write_fields(write_headers(added[at], table_desc.headers), table_desc)]

\* the body of the loop of DDSpider.run up to describe_table: the description of a table
Describe(self, table) ==
    LET cols == get_columns_for_table(self, table)
        desc == TableDescription(table)
    IN  [desc EXCEPT !.fields = [i \in 1..Len(cols) |-> make_field(self, table, cols[i])]]

-----------------------------------------------------------------------------
(* discoverdb: one run of the pipeline.  Nothing catches an exception, so a *)
(* step that raises ends the run (pc = "failed").                           *)

NoFile == None
NoCall == [fn |-> "none"]

\* conn.getinfo(SQL_DATABASE_NAME): the name of the database connected to
dbname == catalog

Started ==
    /\ pc = "start"
    /\ connOpen = FALSE
    /\ cache = SchemaCache
    /\ wkbk = <<>>
    /\ next = 0
    /\ saveCalls = 0
    /\ file = NoFile
    /\ printed = None
    /\ trace = <<>>

Raise == pc' = "failed"

\* DBService.__init__
Connect ==
    /\ pc = "start"
    /\ trace' = Append(trace, "connect")
    /\ \/ /\ connOpen' = TRUE
          /\ pc' = "get_tables"
       \/ /\ Raise
          /\ UNCHANGED connOpen
    /\ UNCHANGED <<catalogVars, cache, wkbk, next, saveCalls, file, printed, run, prevFile, call>>

\* SchemaCache.bootstrap: cache.tables = dbservice.get_tables()
GetTables ==
    /\ pc = "get_tables"
    /\ trace' = Append(trace, "get_tables")
    /\ \/ \E rows \in Orderings(TablesSelected) :
            /\ cache' = [SchemaCache EXCEPT !.tables = get_tables(rows)]
            /\ pc' = "get_columns"
       \/ /\ Raise
          /\ UNCHANGED cache
    /\ UNCHANGED <<catalogVars, connOpen, wkbk, next, saveCalls, file, printed, run, prevFile, call>>

\* SchemaCache.bootstrap: cache.columns = dbservice.get_columns()
GetColumns ==
    /\ pc = "get_columns"
    /\ trace' = Append(trace, "get_columns")
    /\ \/ \E rows \in { o \in Orderings(ColumnsSelected) : ColumnsOrdered(o) } :
            /\ cache' = [cache EXCEPT !.columns = get_columns(rows)]
            /\ pc' = "get_constraints"
       \/ /\ Raise
          /\ UNCHANGED cache
    /\ UNCHANGED <<catalogVars, connOpen, wkbk, next, saveCalls, file, printed, run, prevFile, call>>

\* SchemaCache.bootstrap: cache.constraints = dbservice.get_constraints()
GetConstraints ==
    /\ pc = "get_constraints"
    /\ trace' = Append(trace, "get_constraints")
    /\ \/ \E rows \in Orderings(ConstraintsSelected) :
            /\ cache' = [cache EXCEPT !.constraints = get_constraints(rows)]
            /\ pc' = "close"
       \/ /\ Raise
          /\ UNCHANGED cache
    /\ UNCHANGED <<catalogVars, connOpen, wkbk, next, saveCalls, file, printed, run, prevFile, call>>

\* bootstrap without its dbservice.close()
Close_forgotten ==
    /\ pc = "close"
    /\ pc' = "xlservice"
    /\ UNCHANGED <<catalogVars, connOpen, cache, wkbk, next, saveCalls, file, printed, trace, run, prevFile, call>>

\* SchemaCache.bootstrap: dbservice.close()
Close ==
    /\ pc = "close"
    /\ trace' = Append(trace, "close")
    /\ connOpen' = FALSE
    /\ pc' = "xlservice"
    /\ UNCHANGED <<catalogVars, cache, wkbk, next, saveCalls, file, printed, run, prevFile, call>>

\* XLService.__init__ (and DDSpider.__init__, which only keeps its arguments)
NewXLService ==
    /\ pc = "xlservice"
    /\ wkbk' = remove_sheet(Workbook, PyStr("Sheet"))
    /\ pc' = "run"
    /\ UNCHANGED <<catalogVars, connOpen, cache, next, saveCalls, file, printed, trace, run, prevFile, call>>

\* DDSpider.run: one pass of the loop over cache.tables
RunTable ==
    /\ pc = "run"
    /\ next < Len(cache.tables)
    /\ trace' = Append(trace, "describe_table")
    /\ LET table == cache.tables[next + 1]
       IN  \/ /\ ~InvalidTitle(table)
              /\ wkbk' = describe_table(wkbk, Describe(cache, table))
              /\ next' = next + 1
              /\ UNCHANGED pc
           \/ /\ InvalidTitle(table)
              /\ Raise
              /\ UNCHANGED <<wkbk, next>>
    /\ UNCHANGED <<catalogVars, connOpen, cache, saveCalls, file, printed, run, prevFile, call>>

\* save() indented into the loop of run: the workbook is saved after every table
Save_in_loop ==
    /\ pc = "run"
    /\ IF Len(cache.tables) = 0 THEN TRUE ELSE next > 0
    /\ IF saveCalls = 0 THEN TRUE ELSE file.sheets # wkbk
    /\ trace' = Append(trace, "save")
    /\ saveCalls' = saveCalls + 1
    /\ \/ /\ file' = [path |-> fullpath(directory, dbname), sheets |-> wkbk]
          /\ pc' = IF next = Len(cache.tables) THEN "print" ELSE "run"
       \/ /\ Raise
          /\ UNCHANGED file
    /\ UNCHANGED <<catalogVars, connOpen, cache, wkbk, next, printed, run, prevFile, call>>

\* DDSpider.run: self.xlservice.save(), after the loop
Save ==
    /\ pc = "run"
    /\ next = Len(cache.tables)
    /\ trace' = Append(trace, "save")
    /\ saveCalls' = saveCalls + 1
    /\ \/ /\ file' = [path |-> fullpath(directory, dbname), sheets |-> wkbk]
          /\ pc' = "print"
       \/ /\ Raise
          /\ UNCHANGED file
    /\ UNCHANGED <<catalogVars, connOpen, cache, wkbk, next, printed, run, prevFile, call>>

\* discoverdb: print("Data Dictionary Created: ...")
Report ==
    /\ pc = "print"
    /\ trace' = Append(trace, "print")
    /\ printed' = PyStr("Data Dictionary Created: " \o fullpath(directory, dbname))
    /\ pc' = "done"
    /\ UNCHANGED <<catalogVars, connOpen, cache, wkbk, next, saveCalls, file, run, prevFile, call>>

\* the pipeline is started a second time against the unchanged catalog
Rerun ==
    /\ pc = "done"
    /\ run = 1
    /\ run' = 2
    /\ prevFile' = file
    /\ pc' = "start"
    /\ connOpen' = FALSE
    /\ cache' = SchemaCache
    /\ wkbk' = <<>>
    /\ next' = 0
    /\ saveCalls' = 0
    /\ file' = NoFile
    /\ printed' = None
    /\ trace' = <<>>
    /\ UNCHANGED <<catalogVars, call>>

Init ==
    /\ catTables \in UpTo(TablePool, MaxTables)
    /\ catColumns \in UpTo(ColumnPool, MaxColumns)
    /\ catConstraints \in UpTo(ConstraintPool, MaxConstraints)
    /\ Started
    /\ run = 1
    /\ prevFile = NoFile
    /\ call = NoCall

Next ==
    \/ Connect
    \/ GetTables
    \/ GetColumns
    \/ GetConstraints
    \/ Close
    \/ NewXLService
    \/ RunTable
    \/ Save
    \/ Report
    \/ Rerun

Spec == Init /\ [][Next]_vars

-----------------------------------------------------------------------------
(* Direct calls of the SchemaCache queries and of make_field, on every cache *)
(* of at most MaxConstraints constraint records.                             *)

Names == { PyStr("A"), PyStr("B") }
ColumnNames == { PyStr("id"), PyStr("ref") }

ConstraintInputs ==
    { Constraint(PyStr("K"), type, t, c, None, None) :
        type \in { PyStr("PRIMARY KEY"), PyStr("UNIQUE") }, t \in Names, c \in ColumnNames }
    \cup
    { Constraint(PyStr("K"), PyStr("FOREIGN KEY"), t, c, src[1], src[2]) :
        t \in Names, c \in ColumnNames,
        src \in { <<PyStr("A"), PyStr("id")>>, <<PyStr("B"), PyStr("ref")>> } }

ColumnInputs ==
    { Column(PyStr("A"), name, rest[1], rest[2], maxlen, rest[3], identity) :
        name \in ColumnNames,
        rest \in { <<PyStr("NO"), PyStr("int"), None>>,
                   <<PyStr("YES"), PyStr("varchar"), PyStr("('x')")>> },
        maxlen \in { None, PyInt(0), PyInt(255), PyInt(-1) },
        identity \in { None, PyBool(FALSE), PyBool(TRUE) } }

SeqsUpTo(S, n) == UNION { [1..k -> S] : k \in 0..n }

InitLookup ==
    /\ catTables = {}
    /\ catColumns = {}
    /\ catConstraints = {}
    /\ pc = "lookup"
    /\ connOpen = FALSE
    /\ \E cs \in SeqsUpTo(ConstraintInputs, MaxConstraints) :
            cache = [SchemaCache EXCEPT !.constraints = cs]
    /\ wkbk = <<>>
    /\ next = 0
    /\ saveCalls = 0
    /\ file = NoFile
    /\ printed = None
    /\ trace = <<>>
    /\ run = 1
    /\ prevFile = NoFile
    /\ call = NoCall

CallIsColumnAKey ==
    /\ pc = "lookup"
    /\ call = NoCall
    /\ \E t \in Names, c \in ColumnNames :
            call' = [fn |-> "is_column_a_key", table |-> t, column |-> c,
                     result |-> is_column_a_key(cache, t, c)]
    /\ UNCHANGED <<catalogVars, pipelineVars, cache>>

CallGetColumnReference ==
    /\ pc = "lookup"
    /\ call = NoCall
    /\ \E t \in Names, c \in ColumnNames :
            call' = [fn |-> "get_column_reference", table |-> t, column |-> c,
                     result |-> get_column_reference(cache, t, c)]
    /\ UNCHANGED <<catalogVars, pipelineVars, cache>>

CallIsColumnUnique ==
    /\ pc = "lookup"
    /\ call = NoCall
    /\ \E t \in Names, c \in ColumnNames :
            call' = [fn |-> "is_column_unique", table |-> t, column |-> c,
                     result |-> is_column_unique(cache, t, c)]
    /\ UNCHANGED <<catalogVars, pipelineVars, cache>>

CallMakeField ==
    /\ pc = "lookup"
    /\ call = NoCall
    /\ \E col \in ColumnInputs :
            call' = [fn |-> "make_field", table |-> col.TABLE_NAME, col |-> col,
                     result |-> make_field(cache, col.TABLE_NAME, col),
                     row |-> to_row(make_field(cache, col.TABLE_NAME, col))]
    /\ UNCHANGED <<catalogVars, pipelineVars, cache>>

NextLookup ==
    \/ CallIsColumnAKey
    \/ CallGetColumnReference
    \/ CallIsColumnUnique
    \/ CallMakeField

SpecLookup == InitLookup /\ [][NextLookup]_vars

-----------------------------------------------------------------------------
(* What the claims are stated with *)

\* the positions of the constraint records of the given kind on (table, column)
HitsOf(type, table, column) ==
    { i \in 1..Len(cache.constraints) :
        /\ cache.constraints[i].CONSTRAINT_TYPE = PyStr(type)
        /\ cache.constraints[i].CONSTRAINED_TABLE = table
        /\ cache.constraints[i].CONSTRAINED_COLUMN = column }

SetMax(S) == CHOOSE m \in S : \A x \in S : x <= m

\* "SOURCE_TABLE.SOURCE_COLUMN" of the records at the positions S, in ascending
\* position, joined by "; "
RECURSIVE RefsAt(_)
RefsAt(S) ==
    LET m == SetMax(S)
        last == cache.constraints[m].SOURCE_TABLE.str \o "."
                    \o cache.constraints[m].SOURCE_COLUMN.str
    IN  IF S = {m} THEN last ELSE RefsAt(S \ {m}) \o "; " \o last

\* the positions in cache.columns of the Column records of a table
ColumnsAt(table) ==
    { j \in 1..Len(cache.columns) : cache.columns[j].TABLE_NAME = table }

\* the i-th Column record of a table, in the order of cache.columns
NthColumn(table, i) ==
    cache.columns[CHOOSE j \in ColumnsAt(table) :
                    Cardinality({ k \in ColumnsAt(table) : k < j }) = i - 1]

HeaderRow ==
    << PyStr("Primary/Foreign Key"), PyStr("Field Name"), PyStr("Caption"),
       PyStr("Data Type"), PyStr("Field Size"), PyStr("Default"), PyStr("Nullable"),
       PyStr("Unique"), PyStr("Reference"), PyStr("Notes") >>

\* the worksheet titled like the table holds the header and the table's fields
SheetHoldsTable(ws, table) ==
    /\ Len(ws.rows) = Cardinality(ColumnsAt(table)) + 1
    /\ ws.rows[1] = HeaderRow
    /\ \A i \in 1..Cardinality(ColumnsAt(table)) :
            ws.rows[i + 1] = to_row(make_field(cache, table, NthColumn(table, i)))

IsPrefix(s, t) == Len(s) <= Len(t) /\ \A i \in 1..Len(s) : s[i] = t[i]

Count(s, e) == Cardinality({ i \in 1..Len(s) : s[i] = e })

\* the steps of a complete run over n tables
StepsOfRun(n) ==
    <<"connect", "get_tables", "get_columns", "get_constraints", "close">>
    \o [i \in 1..n |-> "describe_table"] \o <<"save", "print">>

SaveReached == pc \in {"print", "done"}

-----------------------------------------------------------------------------
(* The claims *)

\* C1: is_column_a_key returns "P/F" exactly when a PRIMARY KEY and a FOREIGN
\* KEY constraint are on (table, column), "P" when only a PRIMARY KEY one is,
\* "F" when only a FOREIGN KEY one is, and None otherwise (UNIQUE does not count).
C1_KeyRole ==
    call.fn = "is_column_a_key" =>
        LET pk == HitsOf("PRIMARY KEY", call.table, call.column) # {}
            fk == HitsOf("FOREIGN KEY", call.table, call.column) # {}
        IN  /\ call.result \in { PyStr("P/F"), PyStr("P"), PyStr("F"), None }
            /\ (call.result = PyStr("P/F")) <=> (pk /\ fk)
            /\ (call.result = PyStr("P")) <=> (pk /\ ~fk)
            /\ (call.result = PyStr("F")) <=> (~pk /\ fk)
            /\ (call.result = None) <=> (~pk /\ ~fk)

C1_Witness ==
    /\ call.fn = "is_column_a_key"
    /\ call.result = PyStr("P/F")
    /\ HitsOf("PRIMARY KEY", call.table, call.column) # {}
    /\ HitsOf("FOREIGN KEY", call.table, call.column) # {}

\* C2: get_column_reference returns None when no FOREIGN KEY constraint is on
\* (table, column), and otherwise "SOURCE_TABLE.SOURCE_COLUMN" of every such
\* constraint record, in the order of the records, joined by "; ".
C2_Reference ==
    call.fn = "get_column_reference" =>
        LET fks == HitsOf("FOREIGN KEY", call.table, call.column)
        IN  IF fks = {} THEN call.result = None
            ELSE call.result = PyStr(RefsAt(fks))

C2_Witness ==
    /\ call.fn = "get_column_reference"
    /\ Cardinality(HitsOf("FOREIGN KEY", call.table, call.column)) = 2
    /\ call.result = PyStr("A.id; B.ref")

\* C7: the caption of the Field of make_field is "Identity" when the identity
\* flag of the column is true, None when it is false, and nothing else ever.
C7_Caption ==
    call.fn = "make_field" =>
        /\ call.col.IS_IDENTITY = PyBool(TRUE) => call.result.cap = PyStr("Identity")
        /\ call.col.IS_IDENTITY = PyBool(FALSE) => call.result.cap = None
        /\ call.result.cap \in { PyStr("Identity"), None }

C7_Witness ==
    /\ call.fn = "make_field"
    /\ call.col.IS_IDENTITY = PyBool(TRUE)
    /\ call.result.cap = PyStr("Identity")

\* C8: is_column_unique is true exactly when a UNIQUE constraint is on
\* (table, column); PRIMARY KEY and FOREIGN KEY constraints do not count.
C8_Unique ==
    call.fn = "is_column_unique" =>
        call.result = PyBool(HitsOf("UNIQUE", call.table, call.column) # {})

C8_Witness ==
    /\ call.fn = "is_column_unique"
    /\ call.result = PyBool(TRUE)
    /\ HitsOf("UNIQUE", call.table, call.column) # {}
    /\ HitsOf("PRIMARY KEY", call.table, call.column) # {}

\* what C10 says of everything but the size
FieldCopiesColumn ==
    /\ call.result.name = call.col.COLUMN_NAME
    /\ call.result.typ = call.col.DATA_TYPE
    /\ call.result.null = call.col.IS_NULLABLE
    /\ call.result.default = call.col.COLUMN_DEFAULT
    /\ call.result.notes = None
    /\ call.row = << call.result.key, call.result.name, call.result.cap,
                     call.result.typ, call.result.size, call.result.default,
                     call.result.null, call.result.uniq, call.result.ref,
                     call.result.notes >>
    /\ call.row[2] = call.col.COLUMN_NAME
    /\ call.row[10] = None

\* C10 as stated: the Field carries name, type, nullable flag, max length and
\* default of the Column unchanged (size = MAX_LENGTH), its notes are None, and
\* to_row lists key, name, caption, type, size, default, nullable, unique,
\* reference, notes.
C10_AsStated ==
    call.fn = "make_field" =>
        /\ FieldCopiesColumn
        /\ call.result.size = call.col.MAX_LENGTH

\* C10 amended: as stated, but the size is the decimal string of MAX_LENGTH
\* (255 gives "255", -1 gives "-1") when MAX_LENGTH is a number other than 0,
\* and is MAX_LENGTH itself when that is None or 0.
C10_SizeAsString ==
    call.fn = "make_field" =>
        /\ FieldCopiesColumn
        /\ call.col.MAX_LENGTH \in { None, PyInt(0) } =>
                call.result.size = call.col.MAX_LENGTH
        /\ call.col.MAX_LENGTH = PyInt(255) => call.result.size = PyStr("255")
        /\ call.col.MAX_LENGTH = PyInt(-1) => call.result.size = PyStr("-1")
        /\ call.col.MAX_LENGTH \notin { None, PyInt(0) } =>
                /\ IsStr(call.result.size)
                /\ call.result.size # call.col.MAX_LENGTH

C10_Witness ==
    /\ call.fn = "make_field"
    /\ call.col.MAX_LENGTH = PyInt(255)
    /\ call.result.size = PyStr("255")
    /\ call.row[5] = PyStr("255")

\* C3: once the loop of run has passed a table, the worksheet of that name
\* holds len(columnsOf(T)) + 1 rows: the header of ten entries, then the field
\* of the i-th Column record of T in row i + 1; after run this is so for every
\* table of the list, and a pass of the loop fails only on a title the
\* workbook refuses, never on a table without columns.
C3_Rows ==
    /\ \A k \in 1..next :
            SheetHoldsTable(wkbk[get_sheet_by_name(wkbk, cache.tables[k])], cache.tables[k])
    /\ SaveReached => next = Len(cache.tables)
    /\ (pc = "failed" /\ Len(trace) > 0 /\ trace[Len(trace)] = "describe_table")
            => InvalidTitle(cache.tables[next + 1])

C3_Witness ==
    /\ pc = "done"
    /\ Len(cache.tables) = 2
    /\ Cardinality(ColumnsAt(cache.tables[1])) = 2
    /\ Cardinality(ColumnsAt(cache.tables[2])) = 0
    /\ Len(wkbk[1].rows) = 3
    /\ wkbk[2].rows = << HeaderRow >>

\* C4: save is invoked at most once in a run, and only when every table of
\* the list has been described; a run that fails before save never invokes
\* it and leaves no file; no file exists while a table is still to describe.
C4_SaveLast ==
    /\ saveCalls <= 1
    /\ saveCalls = 1 =>
            /\ next = Len(cache.tables)
            /\ Count(trace, "describe_table") = Len(cache.tables)
            /\ trace[Len(trace)] = "save" \/ pc \in {"print", "done"}
    /\ file # NoFile =>
            /\ saveCalls = 1
            /\ next = Len(cache.tables)
            /\ file.sheets = wkbk
    /\ (pc = "failed" /\ trace[Len(trace)] # "save") => (saveCalls = 0 /\ file = NoFile)
    /\ pc = "failed" => file = NoFile

C4_Witness ==
    /\ pc = "failed"
    /\ trace[Len(trace)] = "describe_table"
    /\ next = 1
    /\ Len(wkbk) = 1
    /\ saveCalls = 0
    /\ file = NoFile

\* C5: the steps of a run are taken in the order connect, get_tables,
\* get_columns, get_constraints, close, describe_table for each table, save,
\* print; the connection is closed once, after the three queries and before
\* the workbook exists, and no query follows the close.
C5_Order ==
    /\ IsPrefix(trace, StepsOfRun(Len(cache.tables)))
    /\ pc \in {"xlservice", "run", "print", "done"} =>
            /\ Count(trace, "close") = 1
            /\ ~connOpen
    /\ wkbk # <<>> => (Count(trace, "close") = 1 /\ ~connOpen)
    /\ connOpen => pc \in {"get_tables", "get_columns", "get_constraints", "close", "failed"}
    /\ pc = "done" => trace = StepsOfRun(Len(cache.tables))

C5_Witness ==
    /\ pc = "done"
    /\ Len(cache.tables) = 2
    /\ trace = <<"connect", "get_tables", "get_columns", "get_constraints", "close",
                 "describe_table", "describe_table", "save", "print">>
    /\ ~connOpen

\* C6 as stated: in a run that reaches save the workbook holds one worksheet
\* per entry of the table list, in that order, each titled with the name of
\* its table and holding the rows of that table; there is no other worksheet.
C6_AsStated ==
    SaveReached =>
        /\ Len(wkbk) = Len(cache.tables)
        /\ \A k \in 1..Len(wkbk) :
                /\ k <= Len(cache.tables)
                /\ wkbk[k].title = cache.tables[k]
                /\ SheetHoldsTable(wkbk[k], cache.tables[k])

\* C9 as stated: a second run against the unchanged catalog saves the same
\* worksheets in the same order with the same rows and cell values.
C9_AsStated ==
    (run = 2 /\ pc = "done") => file.sheets = prevFile.sheets

====
